---- MODULE Spec2Model ----
(***************************************************************************)
(* Model of the roach filesystem task queue: roach/submit.py (submit) and  *)
(* roach/worker.py (worker, its SIGTERM handlers, kill_proc_tree).         *)
(* The queue directory is modelled as a map from directory name to the set *)
(* of task-file basenames it holds; every move is a rename of one basename *)
(* from one directory to another.                                          *)
(***************************************************************************)
EXTENDS Integers, Sequences, FiniteSets, TLC

\* ---- bounds of the model ------------------------------------------------
\* Two deployments are explored: several workers competing over few tasks
\* ("two workers, one task") and few workers with a chain of tasks
\* ("precondition gating").
RaceWorkers == 2
RaceTasks == 1
ChainWorkers == 1
ChainTasks == 2

Deployments ==
    {[workers |-> RaceWorkers, tasks |-> RaceTasks],
     [workers |-> ChainWorkers, tasks |-> ChainTasks]}

Max(a, b) == IF a >= b THEN a ELSE b

Workers == 1..Max(RaceWorkers, ChainWorkers)
TaskIds == 1..Max(RaceTasks, ChainTasks)

\* Processes that call submit() on one host, once each.
MaxSubmitters == 2
Submitters == 1..MaxSubmitters

\* The clock: time_ns() counts ticks, TicksPerSecond of them make one second
\* (the code's 1_000_000_000, scaled down), and the clock is followed over
\* MaxSeconds seconds.
TicksPerSecond == 3
MaxSeconds == 2
MaxClock == MaxSeconds * TicksPerSecond - 1

\* Launches of one task file that are followed through the parser.
MaxRuns == 2

\* ---- directory names used by the code -----------------------------------
\* submit.py:15  task_file = f"{queue_dir}/queued/{task_id}"
SubmitDir == "queued"
\* submit.py:23  done_file = f"{queue_dir}/done/{task_id}"
SubmitDoneDir == "done"
\* worker.py:55  for state in ["ready", "check", "active", "paused", "done", "failed"]
StateDirs == {"ready", "check", "active", "paused", "done", "failed"}
\* worker.py:64  sorted(Path(f"{queue_dir}/ready").iterdir())
ReadyDir == "ready"
\* worker.py:75  rename(f"{queue_dir}/check/{task_id}")
CheckDir == "check"
\* worker.py:101 rename(f"{queue_dir}/active/{task_id}")
ActiveDir == "active"
\* worker.py:145 Path(f"{queue_dir}/paused/{task_id}")
PausedDir == "paused"
\* worker.py:167 rename(f"{queue_dir}/done/{task_id}")
DoneDir == "done"
\* worker.py:170 rename(f"{queue_dir}/failed/{task_id}")
FailedDir == "failed"

AllDirs == StateDirs \cup {SubmitDir}

\* The six state directories as the specification names them.
SpecStateDirs == {"queued", "checking", "active", "paused", "done", "failed"}

VARIABLES
    deploy,          \* the deployment: how many workers run, how many submits
    exist,           \* set of directories that exist under Q
    dirs,            \* dirs[d] = set of task ids with a file at Q/d/<id>
    file,            \* file[t] = content written by submit for id t, or NoFile
    returned,        \* returned[t] = what the submit that created t returned
    pc,              \* pc[w] = position of worker w in worker()
    persist,         \* persist[w], argument of worker()
    one_task,        \* one_task[w], argument of worker()
    task_file_list,  \* task_file_list[w] = entries of the snapshot not yet iterated
    task_id,         \* task_id[w]   (0 before the first iteration)
    task_file,       \* directory part of the path held in task_file[w]
    chk_proc,        \* precondition subprocess of w: none, running, exit0, exit1
    handler,         \* SIGTERM disposition of w: default, h1 (l.103), h2 (l.134)
    proc,            \* command subprocess tree of w
    exit_status,     \* how w ended: none, yield, released, error, signal
    clock,           \* the host's wall clock, in ticks
    sub,             \* sub[s] = locals of the submit() call of process s
    qfile,           \* qfile[id] = the file at Q/queued/<id> written by submit()
    banners,         \* banners[t] = banner lines the workers appended for id t
    fmt              \* one task text on its way through submit() and the parser

vars == <<deploy, exist, dirs, file, returned, pc, persist, one_task, task_file_list, task_id,
          task_file, chk_proc, handler, proc, exit_status, clock, sub, qfile,
          banners, fmt>>

\* The queue and its workers.
queueVars == <<deploy, exist, dirs, file, returned, pc, persist, one_task,
               task_file_list, task_id, task_file, chk_proc, handler, proc,
               exit_status, banners>>

\* The clock and the submit() calls in progress.
subVars == <<clock, sub, qfile>>

wkVars == <<pc, persist, one_task, task_file_list, task_id, task_file,
            chk_proc, handler, proc, exit_status>>

NoText == [sh |-> "none", dir |-> "", id |-> 0]
NoFile == [chk |-> NoText, cmd |-> "none"]

\* ---- submit() calls in progress -------------------------------------------
\* A task id as make_task_id() formats it: the seconds field, then the
\* nanosecond field; both are fixed-width digit strings, so ids compare as
\* the pairs do.
IdSet == (0..(MaxSeconds - 1)) \X (0..(TicksPerSecond - 1))
NoId == <<0 - 1, 0 - 1>>

\* submit.py:20  the separator written between chk and cmd
Separator == "---"

NoCall == [pc |-> "idle", cmd |-> "none", now |-> 0, time_ns |-> 0,
           task_id |-> NoId, pred |-> {}]
NoQFile == <<"absent">>

\* No task text is followed.
NoFmt == [pc |-> "none", chk |-> <<>>, cmd |-> <<>>, text |-> <<>>,
          rchk |-> <<>>, rcmd |-> <<>>, chk1 |-> <<>>, cmd1 |-> <<>>,
          run |-> 0, at |-> TRUE, raw |-> FALSE, orig |-> <<>>,
          back |-> FALSE]

\* ---- shell texts --------------------------------------------------------
\* Mutant of Witness: the test names the task file instead of done_file.
WitnessOfTaskFile(t) == [sh |-> "test -f", dir |-> SubmitDir, id |-> t]

\* submit.py:23-24  return f"test -f '{done_file}'"  (the completion witness)
Witness(t) == [sh |-> "test -f", dir |-> SubmitDoneDir, id |-> t]

ShTrue == [sh |-> "true", dir |-> "", id |-> 0]
ShFalse == [sh |-> "false", dir |-> "", id |-> 0]

\* Command texts: "exit 0" and "exit 1" (queue_demo.py demo_error_handling).
CmdTexts == {"exit 0", "exit 1"}

\* Exit code of a precondition text run by the shell in filesystem state d.
ShExit(c, d) ==
    IF c.sh = "true" THEN 0
    ELSE IF c.sh = "false" THEN 1
    ELSE IF c.id \in d[c.dir] THEN 0 ELSE 1

\* Exit code of a command text.
CmdExit(c) == IF c = "exit 0" THEN 0 ELSE 1

\* ---- filesystem primitives ----------------------------------------------
\* Path.exists()
Exists(d, t) == t \in dirs[d]

\* Mutant of Rename: the file is copied, the source entry stays.
RenameCopy(d, src, dst, t) ==
    [x \in AllDirs |-> IF x = dst THEN d[x] \cup {t} ELSE d[x]]

\* os.rename of Q/src/t to Q/dst/t; the caller checks Exists(src, t).
Rename(d, src, dst, t) ==
    [x \in AllDirs |->
        IF x = dst THEN d[x] \cup {t}
        ELSE IF x = src THEN d[x] \ {t}
        ELSE d[x]]

\* Mutant of sorted: the entries come in descending order.
sortedDescending(S) ==
    CHOOSE f \in [1..Cardinality(S) -> S] :
        \A i \in 1..Cardinality(S), j \in 1..Cardinality(S) : i < j => f[i] > f[j]

\* sorted(iterdir()): the ids of a set in ascending order.
RECURSIVE sorted(_)
sorted(S) ==
    IF S = {} THEN <<>>
    ELSE LET m == CHOOSE x \in S : \A y \in S : x <= y
         IN <<m>> \o sorted(S \ {m})

\* Nothing was submitted and no worker was started.
QueueIdle ==
    /\ exist = {}
    /\ dirs = [d \in AllDirs |-> {}]
    /\ file = [t \in TaskIds |-> NoFile]
    /\ returned = [t \in TaskIds |-> NoText]
    /\ pc = [w \in Workers |-> "init"]
    /\ persist = [w \in Workers |-> FALSE]
    /\ one_task = [w \in Workers |-> FALSE]
    /\ task_file_list = [w \in Workers |-> <<>>]
    /\ task_id = [w \in Workers |-> 0]
    /\ task_file = [w \in Workers |-> "none"]
    /\ chk_proc = [w \in Workers |-> "none"]
    /\ handler = [w \in Workers |-> "default"]
    /\ proc = [w \in Workers |-> "none"]
    /\ exit_status = [w \in Workers |-> "none"]
    /\ banners = [t \in TaskIds |-> 0]

\* No submit() call is in progress.
SubIdle ==
    /\ clock = 0
    /\ sub = [s \in Submitters |-> NoCall]
    /\ qfile = [i \in IdSet |-> NoQFile]

Init ==
    /\ deploy \in Deployments
    /\ QueueIdle
    /\ SubIdle
    /\ fmt = NoFmt

\* ---- submit.py ----------------------------------------------------------
Submitted == {t \in TaskIds : file[t] # NoFile}

\* make_task_id(): ids are drawn from the clock; successive calls are
\* modelled as returning the next unused id.
make_task_id == Cardinality(Submitted) + 1

\* submit(queue_dir, cmd, chk): chk is "true", "false" or the witness that an
\* earlier submit returned.
submit(cmd, chk) ==
    LET t == make_task_id IN
    /\ t <= deploy.tasks
    /\ exist' = exist \cup {SubmitDir}
    /\ dirs' = [dirs EXCEPT ![SubmitDir] = @ \cup {t}]
    /\ file' = [file EXCEPT ![t] = [chk |-> chk, cmd |-> cmd]]
    /\ returned' = [returned EXCEPT ![t] = Witness(t)]
    /\ UNCHANGED wkVars
    /\ UNCHANGED <<deploy, subVars, banners, fmt>>

Submit ==
    \E cmd \in CmdTexts :
        \E chk \in {ShTrue, ShFalse} \cup {returned[u] : u \in Submitted} :
            submit(cmd, chk)

\* ---- worker.py: worker() -------------------------------------------------
\* The worker process ends: sys.exit(0) ("yield", "released"), an unhandled
\* exception ("error") or death by the signal ("signal"). Its local variables
\* end with it; task_id and proc stay, they identify the command tree, which
\* runs in its own session and outlives the worker unless it was killed. A
\* precondition subprocess that is running (worker.py:90-92) is not signalled
\* by anything either and outlives the worker.
Ended(w, how) ==
    /\ pc' = [pc EXCEPT ![w] = "exited"]
    /\ exit_status' = [exit_status EXCEPT ![w] = how]
    /\ persist' = [persist EXCEPT ![w] = FALSE]
    /\ one_task' = [one_task EXCEPT ![w] = FALSE]
    /\ task_file_list' = [task_file_list EXCEPT ![w] = <<>>]
    /\ task_file' = [task_file EXCEPT ![w] = "none"]
    /\ chk_proc' = [chk_proc EXCEPT ![w] = IF @ = "running" THEN @ ELSE "none"]
    /\ handler' = [handler EXCEPT ![w] = "default"]

\* w goes on to position `to'.
Goes(w, to) ==
    /\ pc' = [pc EXCEPT ![w] = to]
    /\ UNCHANGED <<exit_status, persist, one_task>>

\* w continues the for loop (or enters it). The next iteration overwrites
\* task_file, task_id and chk_proc before the loop reads them; a second
\* handler that is still registered reads proc first and raises there (see
\* SigtermH2), so the old values are not kept.
Continues(w) ==
    /\ Goes(w, "for")
    /\ task_id' = [task_id EXCEPT ![w] = 0]
    /\ task_file' = [task_file EXCEPT ![w] = "none"]
    /\ chk_proc' = [chk_proc EXCEPT ![w] = "none"]
    /\ UNCHANGED handler

Alive(p) == p \in {"running", "stopped"}

\* Mutant of WorkerStart: the state directories are made afresh.
WorkerStartFresh(w) ==
    /\ pc[w] = "init"
    /\ w <= deploy.workers
    /\ exist' = exist \cup StateDirs
    /\ dirs' = [d \in AllDirs |-> IF d \in StateDirs THEN {} ELSE dirs[d]]
    /\ \E p \in BOOLEAN : persist' = [persist EXCEPT ![w] = p]
    /\ \E o \in BOOLEAN : one_task' = [one_task EXCEPT ![w] = o]
    /\ pc' = [pc EXCEPT ![w] = "loop"]
    /\ UNCHANGED <<file, task_file_list, task_id, task_file, chk_proc,
                   handler, proc, exit_status>>
    /\ UNCHANGED <<deploy, returned, subVars, banners, fmt>>

\* worker.py:52-59  make state dirs (mkdir exist_ok=True), make_worker_id
WorkerStart(w) ==
    /\ pc[w] = "init"
    /\ w <= deploy.workers
    /\ exist' = exist \cup StateDirs
    /\ \E p \in BOOLEAN : persist' = [persist EXCEPT ![w] = p]
    /\ \E o \in BOOLEAN : one_task' = [one_task EXCEPT ![w] = o]
    /\ pc' = [pc EXCEPT ![w] = "loop"]
    /\ UNCHANGED <<dirs, file, task_file_list, task_id, task_file, chk_proc,
                   handler, proc, exit_status>>
    /\ UNCHANGED <<deploy, returned, subVars, banners, fmt>>

\* Mutant of Snapshot: persist is not looked at.
SnapshotQuits(w) ==
    /\ pc[w] = "loop"
    /\ LET lst == sorted(dirs[ReadyDir]) IN
        IF Len(lst) = 0
        THEN Ended(w, "yield")
        ELSE /\ Goes(w, "for")
             /\ task_file_list' = [task_file_list EXCEPT ![w] = lst]
             /\ UNCHANGED <<task_file, chk_proc, handler>>
    /\ UNCHANGED <<exist, dirs, file, task_id, proc>>
    /\ UNCHANGED <<deploy, returned, subVars, banners, fmt>>

\* worker.py:62-68  snapshot of the queue; quit on an empty snapshot
Snapshot(w) ==
    /\ pc[w] = "loop"
    /\ LET lst == sorted(dirs[ReadyDir]) IN
        IF ~persist[w] /\ Len(lst) = 0
        THEN Ended(w, "yield")
        ELSE /\ Goes(w, "for")
             /\ task_file_list' = [task_file_list EXCEPT ![w] = lst]
             /\ UNCHANGED <<task_file, chk_proc, handler>>
    /\ UNCHANGED <<exist, dirs, file, task_id, proc>>
    /\ UNCHANGED <<deploy, returned, subVars, banners, fmt>>

\* worker.py:176-178  the for loop is exhausted: sleep and take a new snapshot
ForEnd(w) ==
    /\ pc[w] = "for"
    /\ task_file_list[w] = <<>>
    /\ Goes(w, "loop")
    /\ UNCHANGED <<exist, dirs, file, task_file_list, task_id, task_file,
                   chk_proc, handler, proc>>
    /\ UNCHANGED <<deploy, returned, subVars, banners, fmt>>

\* worker.py:70-75, 81-90  the rename into check succeeds; read the
\* precondition and start it
ClaimOk(w) ==
    /\ pc[w] = "for"
    /\ task_file_list[w] # <<>>
    /\ LET t == Head(task_file_list[w]) IN
        /\ Exists(ReadyDir, t)
        /\ dirs' = Rename(dirs, ReadyDir, CheckDir, t)
        /\ task_id' = [task_id EXCEPT ![w] = t]
    /\ task_file' = [task_file EXCEPT ![w] = CheckDir]
    /\ task_file_list' = [task_file_list EXCEPT ![w] = Tail(@)]
    /\ chk_proc' = [chk_proc EXCEPT ![w] = "running"]
    /\ Goes(w, "chk")
    /\ UNCHANGED <<exist, file, handler, proc>>
    /\ UNCHANGED <<deploy, returned, subVars, banners, fmt>>

\* worker.py:70-79  the rename raises FileNotFoundError: continue
ClaimLost(w) ==
    /\ pc[w] = "for"
    /\ task_file_list[w] # <<>>
    /\ ~Exists(ReadyDir, Head(task_file_list[w]))
    /\ task_file_list' = [task_file_list EXCEPT ![w] = Tail(@)]
    /\ Continues(w)
    /\ UNCHANGED <<exist, dirs, file, proc>>
    /\ UNCHANGED <<deploy, returned, subVars, banners, fmt>>

\* The precondition subprocess runs its text against the filesystem and exits.
ChkExit(w) ==
    /\ pc[w] = "chk"
    /\ chk_proc[w] = "running"
    /\ chk_proc' = [chk_proc EXCEPT ![w] =
            IF ShExit(file[task_id[w]].chk, dirs) = 0 THEN "exit0" ELSE "exit1"]
    /\ Goes(w, "chk")
    /\ UNCHANGED <<exist, dirs, file, task_file_list, task_id, task_file,
                   handler, proc>>
    /\ UNCHANGED <<deploy, returned, subVars, banners, fmt>>

\* Mutant of ChkFail: a failed check is filed under failed.
ChkFailToFailed(w) ==
    /\ pc[w] = "chk"
    /\ chk_proc[w] = "exit1"
    /\ Exists(task_file[w], task_id[w])
    /\ dirs' = Rename(dirs, task_file[w], FailedDir, task_id[w])
    /\ Continues(w)
    /\ UNCHANGED <<exist, file, proc, task_file_list, deploy, returned, subVars, banners, fmt>>

\* Mutant of ChkFail: a failed check ends the for loop (break, not continue).
ChkFailBreaks(w) ==
    /\ pc[w] = "chk"
    /\ chk_proc[w] = "exit1"
    /\ Exists(task_file[w], task_id[w])
    /\ dirs' = Rename(dirs, task_file[w], ReadyDir, task_id[w])
    /\ Continues(w)
    /\ task_file_list' = [task_file_list EXCEPT ![w] = <<>>]
    /\ UNCHANGED <<exist, file, proc, deploy, returned, subVars, banners, fmt>>

\* worker.py:94-97  check failed: rename back to ready, continue
ChkFail(w) ==
    /\ pc[w] = "chk"
    /\ chk_proc[w] = "exit1"
    /\ IF Exists(task_file[w], task_id[w])
       THEN /\ dirs' = Rename(dirs, task_file[w], ReadyDir, task_id[w])
            /\ Continues(w)
            /\ UNCHANGED task_file_list
       ELSE /\ Ended(w, "error")
            /\ UNCHANGED <<dirs, task_id>>
    /\ UNCHANGED <<exist, file, proc>>
    /\ UNCHANGED <<deploy, returned, subVars, banners, fmt>>

\* Mutant of ChkPass: the exit code of the check is not looked at.
ChkPassAny(w) ==
    /\ pc[w] = "chk"
    /\ chk_proc[w] \in {"exit0", "exit1"}
    /\ Exists(task_file[w], task_id[w])
    /\ dirs' = Rename(dirs, task_file[w], ActiveDir, task_id[w])
    /\ task_file' = [task_file EXCEPT ![w] = ActiveDir]
    /\ Goes(w, "promoted")
    /\ UNCHANGED <<task_file_list, chk_proc, handler>>
    /\ UNCHANGED <<exist, file, task_id, proc, deploy, returned, subVars, banners, fmt>>

\* worker.py:99-101  check successful: rename into active
ChkPass(w) ==
    /\ pc[w] = "chk"
    /\ chk_proc[w] = "exit0"
    /\ IF Exists(task_file[w], task_id[w])
       THEN /\ dirs' = Rename(dirs, task_file[w], ActiveDir, task_id[w])
            /\ task_file' = [task_file EXCEPT ![w] = ActiveDir]
            /\ Goes(w, "promoted")
            /\ UNCHANGED <<task_file_list, chk_proc, handler>>
       ELSE /\ Ended(w, "error")
            /\ UNCHANGED dirs
    /\ UNCHANGED <<exist, file, task_id, proc>>
    /\ UNCHANGED <<deploy, returned, subVars, banners, fmt>>

\* worker.py:103-109  register the first handler
Arm1(w) ==
    /\ pc[w] = "promoted"
    /\ handler' = [handler EXCEPT ![w] = "h1"]
    /\ Goes(w, "armed")
    /\ UNCHANGED <<exist, dirs, file, task_file_list, task_id, task_file,
                   chk_proc, proc>>
    /\ UNCHANGED <<deploy, returned, subVars, banners, fmt>>

\* worker.py:111-120  open(task_file, "r") and read the command
ReadTask(w) ==
    /\ pc[w] = "armed"
    /\ IF Exists(task_file[w], task_id[w])
       THEN /\ Goes(w, "parsed")
            /\ UNCHANGED <<task_file_list, task_file, chk_proc, handler>>
       ELSE Ended(w, "error")
    /\ UNCHANGED <<exist, dirs, file, task_id, proc>>
    /\ UNCHANGED <<deploy, returned, subVars, banners, fmt>>

\* Mutant of Launch: the command is started without a banner line.
LaunchNoBanner(w) ==
    /\ pc[w] = "parsed"
    /\ dirs' = [dirs EXCEPT ![task_file[w]] = @ \cup {task_id[w]}]
    /\ proc' = [proc EXCEPT ![w] = "running"]
    /\ Goes(w, "launched")
    /\ UNCHANGED <<exist, file, task_file_list, task_id, task_file, chk_proc,
                   handler>>
    /\ UNCHANGED <<deploy, returned, subVars, banners, fmt>>

\* worker.py:124-132  open(task_file, "a") creates the file when it is not
\* there; write the banner line; Popen the command in a new session
Launch(w) ==
    /\ pc[w] = "parsed"
    /\ dirs' = [dirs EXCEPT ![task_file[w]] = @ \cup {task_id[w]}]
    /\ banners' = [banners EXCEPT ![task_id[w]] = @ + 1]
    /\ proc' = [proc EXCEPT ![w] = "running"]
    /\ Goes(w, "launched")
    /\ UNCHANGED <<exist, file, task_file_list, task_id, task_file, chk_proc,
                   handler>>
    /\ UNCHANGED <<deploy, returned, subVars, fmt>>

\* worker.py:134-140  register the second handler
Arm2(w) ==
    /\ pc[w] = "launched"
    /\ handler' = [handler EXCEPT ![w] = "h2"]
    /\ Goes(w, "sup")
    /\ UNCHANGED <<exist, dirs, file, task_file_list, task_id, task_file,
                   chk_proc, proc>>
    /\ UNCHANGED <<deploy, returned, subVars, banners, fmt>>

\* The command subprocess exits with the exit code of its text.
ProcExit(w) ==
    /\ proc[w] = "running"
    /\ proc' = [proc EXCEPT ![w] =
            IF CmdExit(file[task_id[w]].cmd) = 0 THEN "exit0" ELSE "exit1"]
    /\ UNCHANGED <<exist, dirs, file, pc, persist, one_task, task_file_list,
                   task_id, task_file, chk_proc, handler, exit_status>>
    /\ UNCHANGED <<deploy, returned, subVars, banners, fmt>>

\* Mutant of OutcomeDir: the two branches are swapped.
OutcomeDirSwapped(p) == IF p = "exit0" THEN FailedDir ELSE DoneDir

\* worker.py:164-170  directory the finished task is renamed into
OutcomeDir(p) == IF p = "exit0" THEN DoneDir ELSE FailedDir

\* Mutant of SupExit: after the rename the worker launches the task again.
SupExitAgain(w) ==
    /\ pc[w] = "sup"
    /\ proc[w] \in {"exit0", "exit1"}
    /\ Exists(task_file[w], task_id[w])
    /\ proc' = [proc EXCEPT ![w] = "gone"]
    /\ dirs' = Rename(dirs, task_file[w], OutcomeDir(proc[w]), task_id[w])
    /\ Goes(w, "parsed")
    /\ UNCHANGED <<task_file_list, task_id, task_file, chk_proc, handler>>
    /\ UNCHANGED <<exist, file, deploy, returned, subVars, banners, fmt>>

\* worker.py:142, 164-174  poll() returns the exit code: rename into done or
\* failed, then quit if one_task
SupExit(w) ==
    /\ pc[w] = "sup"
    /\ proc[w] \in {"exit0", "exit1"}
    /\ proc' = [proc EXCEPT ![w] = "gone"]
    /\ IF Exists(task_file[w], task_id[w])
       THEN /\ dirs' = Rename(dirs, task_file[w], OutcomeDir(proc[w]), task_id[w])
            /\ IF one_task[w]
               THEN /\ Ended(w, "yield")
                    /\ UNCHANGED task_id
               ELSE /\ Continues(w)
                    /\ UNCHANGED task_file_list
       ELSE /\ Ended(w, "error")
            /\ UNCHANGED <<dirs, task_id>>
    /\ UNCHANGED <<exist, file>>
    /\ UNCHANGED <<deploy, returned, subVars, banners, fmt>>

\* worker.py:142-143  the command still runs and the task file is not at its
\* active path
SupMissing(w) ==
    /\ pc[w] = "sup"
    /\ Alive(proc[w])
    /\ ~Exists(task_file[w], task_id[w])
    /\ Goes(w, "moved")
    /\ UNCHANGED <<exist, dirs, file, task_file_list, task_id, task_file,
                   chk_proc, handler, proc>>
    /\ UNCHANGED <<deploy, returned, subVars, banners, fmt>>

\* kill_proc_tree(pid, SIGSTOP, timeout=0) on a tree that was not reaped
SigStop(p) == IF p = "running" THEN "stopped" ELSE p
\* kill_proc_tree(pid, SIGCONT, timeout=0)
SigCont(p) == IF p = "stopped" THEN "running" ELSE p
\* kill_proc_tree(pid, SIGKILL): every process is killed and waited for
SigKill(p) == "gone"

\* worker.py:145-147, 159-162  paused: stop the tree; else deleted: kill, break
SupMoved(w) ==
    /\ pc[w] = "moved"
    /\ IF Exists(PausedDir, task_id[w])
       THEN /\ proc' = [proc EXCEPT ![w] = SigStop(@)]
            /\ Goes(w, "pausewait")
            /\ UNCHANGED <<task_id, task_file, chk_proc, handler>>
       ELSE /\ proc' = [proc EXCEPT ![w] = SigKill(@)]
            /\ Continues(w)
    /\ UNCHANGED <<exist, dirs, file, task_file_list>>
    /\ UNCHANGED <<deploy, returned, subVars, banners, fmt>>

\* worker.py:149-150  the file is no longer in paused
PauseWaitEnd(w) ==
    /\ pc[w] = "pausewait"
    /\ ~Exists(PausedDir, task_id[w])
    /\ Goes(w, "resume")
    /\ UNCHANGED <<exist, dirs, file, task_file_list, task_id, task_file,
                   chk_proc, handler, proc>>
    /\ UNCHANGED <<deploy, returned, subVars, banners, fmt>>

\* worker.py:152-158, 163  back in active: continue the tree; else kill, break
Resume(w) ==
    /\ pc[w] = "resume"
    /\ IF Exists(ActiveDir, task_id[w])
       THEN /\ proc' = [proc EXCEPT ![w] = SigCont(@)]
            /\ Goes(w, "sup")
            /\ UNCHANGED <<task_id, task_file, chk_proc, handler>>
       ELSE /\ proc' = [proc EXCEPT ![w] = SigKill(@)]
            /\ Continues(w)
    /\ UNCHANGED <<exist, dirs, file, task_file_list>>
    /\ UNCHANGED <<deploy, returned, subVars, banners, fmt>>

\* ---- SIGTERM delivered to a running worker -------------------------------
Running(w) == pc[w] \notin {"init", "exited"}

\* Mutant of SigtermDefault: a worker that is signalled while it holds a task
\* in check puts the task back before it ends.
SigtermDefaultReleases(w) ==
    /\ Running(w)
    /\ handler[w] = "default"
    /\ Ended(w, "signal")
    /\ IF task_file[w] = CheckDir /\ Exists(CheckDir, task_id[w])
       THEN dirs' = Rename(dirs, CheckDir, ReadyDir, task_id[w])
       ELSE UNCHANGED dirs
    /\ UNCHANGED <<exist, file, task_id, proc>>
    /\ UNCHANGED <<deploy, returned, subVars, banners, fmt>>

\* No handler was registered yet: the signal terminates the process.
SigtermDefault(w) ==
    /\ Running(w)
    /\ handler[w] = "default"
    /\ Ended(w, "signal")
    /\ UNCHANGED <<exist, dirs, file, task_id, proc>>
    /\ UNCHANGED <<deploy, returned, subVars, banners, fmt>>

\* Mutant of release: the handler exits without the rename.
releaseNoRename(w) ==
    /\ Ended(w, "released")
    /\ UNCHANGED dirs

\* Mutant of release: the handler puts the file into check.
releaseToCheck(w) ==
    IF Exists(task_file[w], task_id[w])
    THEN /\ dirs' = Rename(dirs, task_file[w], CheckDir, task_id[w])
         /\ Ended(w, "released")
    ELSE /\ Ended(w, "error")
         /\ UNCHANGED dirs

\* worker.py:105-106 and 136-137  task_file.rename(ready); sys.exit(0).
\* The rename raises FileNotFoundError when the file is not at task_file.
release(w) ==
    IF Exists(task_file[w], task_id[w])
    THEN /\ dirs' = Rename(dirs, task_file[w], ReadyDir, task_id[w])
         /\ Ended(w, "released")
    ELSE /\ Ended(w, "error")
         /\ UNCHANGED dirs

\* worker.py:103-106  first handler
SigtermH1(w) ==
    /\ Running(w)
    /\ handler[w] = "h1"
    /\ release(w)
    /\ UNCHANGED <<exist, file, task_id, proc>>
    /\ UNCHANGED <<deploy, returned, subVars, banners, fmt>>

\* worker.py:134-137, 22-33  second handler: kill_proc_tree(proc.pid, SIGKILL)
\* then release. psutil.Process(pid) raises NoSuchProcess for a reaped pid.
SigtermH2(w) ==
    /\ Running(w)
    /\ handler[w] = "h2"
    /\ IF proc[w] \in {"none", "gone"}
       THEN /\ Ended(w, "error")
            /\ UNCHANGED <<dirs, proc>>
       ELSE /\ proc' = [proc EXCEPT ![w] = SigKill(@)]
            /\ release(w)
    /\ UNCHANGED <<exist, file, task_id>>
    /\ UNCHANGED <<deploy, returned, subVars, banners, fmt>>

\* ---- the operator (worker.py:143-162 observes these moves) ----------------
\* mv Q/active/<id> Q/paused/
OperatorPause(t) ==
    /\ Exists(ActiveDir, t)
    /\ dirs' = Rename(dirs, ActiveDir, PausedDir, t)
    /\ UNCHANGED <<exist, file>>
    /\ UNCHANGED wkVars
    /\ UNCHANGED <<deploy, returned, subVars, banners, fmt>>

\* mv Q/paused/<id> Q/active/
OperatorResume(t) ==
    /\ Exists(PausedDir, t)
    /\ dirs' = Rename(dirs, PausedDir, ActiveDir, t)
    /\ UNCHANGED <<exist, file>>
    /\ UNCHANGED wkVars
    /\ UNCHANGED <<deploy, returned, subVars, banners, fmt>>

\* rm Q/active/<id>  or  rm Q/paused/<id>
OperatorDelete(t) ==
    /\ \E d \in {ActiveDir, PausedDir} :
        /\ Exists(d, t)
        /\ dirs' = [dirs EXCEPT ![d] = @ \ {t}]
    /\ UNCHANGED <<exist, file>>
    /\ UNCHANGED wkVars
    /\ UNCHANGED <<deploy, returned, subVars, banners, fmt>>

\* mv Q/queued/<id> Q/ready/ : the only way a file written by submit gets
\* into the directory the worker snapshots.
OperatorRequeue(t) ==
    /\ ReadyDir \in exist
    /\ Exists(SubmitDir, t)
    /\ dirs' = Rename(dirs, SubmitDir, ReadyDir, t)
    /\ UNCHANGED <<exist, file>>
    /\ UNCHANGED wkVars
    /\ UNCHANGED <<deploy, returned, subVars, banners, fmt>>

\* ---- specification --------------------------------------------------------
Next ==
    \/ Submit
    \/ \E w \in Workers : WorkerStart(w)
    \/ \E w \in Workers : Snapshot(w)
    \/ \E w \in Workers : ForEnd(w)
    \/ \E w \in Workers : ClaimOk(w)
    \/ \E w \in Workers : ClaimLost(w)
    \/ \E w \in Workers : ChkExit(w)
    \/ \E w \in Workers : ChkFail(w)
    \/ \E w \in Workers : ChkPass(w)
    \/ \E w \in Workers : Arm1(w)
    \/ \E w \in Workers : ReadTask(w)
    \/ \E w \in Workers : Launch(w)
    \/ \E w \in Workers : Arm2(w)
    \/ \E w \in Workers : ProcExit(w)
    \/ \E w \in Workers : SupExit(w)
    \/ \E w \in Workers : SupMissing(w)
    \/ \E w \in Workers : SupMoved(w)
    \/ \E w \in Workers : PauseWaitEnd(w)
    \/ \E w \in Workers : Resume(w)
    \/ \E w \in Workers : SigtermDefault(w)
    \/ \E w \in Workers : SigtermH1(w)
    \/ \E w \in Workers : SigtermH2(w)
    \/ \E t \in TaskIds : OperatorPause(t)
    \/ \E t \in TaskIds : OperatorResume(t)
    \/ \E t \in TaskIds : OperatorDelete(t)
    \/ \E t \in TaskIds : OperatorRequeue(t)

Spec == Init /\ [][Next]_vars

TypeOK ==
    /\ exist \subseteq AllDirs
    /\ \A d \in AllDirs : dirs[d] \subseteq TaskIds
    /\ \A w \in Workers : proc[w] \in {"none", "running", "stopped", "exit0", "exit1", "gone"}
    /\ \A w \in Workers : task_file[w] \in AllDirs \cup {"none"}
    /\ \A t \in TaskIds : banners[t] \in 0..Cardinality(Workers)
    /\ clock \in 0..MaxClock
    /\ \A s \in Submitters : sub[s].task_id \in IdSet \cup {NoId}
    /\ \A w \in Workers : chk_proc[w] \in {"none", "running", "exit0", "exit1"}
    /\ fmt.pc \in {"none", "args", "file", "check", "task", "running", "wrote",
                 "done", "failed"}
    /\ fmt.run \in 0..MaxRuns

\* ---- workers left alone: no SIGTERM, no operator pause, resume or delete ----
\* A step of worker w's own code (worker.py:62-178) on a queue where no file
\* is moved or deleted under a supervising worker.
WorkerRuns(w) ==
    \/ Snapshot(w)
    \/ ForEnd(w)
    \/ ClaimOk(w)
    \/ ClaimLost(w)
    \/ ChkFail(w)
    \/ ChkPass(w)
    \/ Arm1(w)
    \/ ReadTask(w)
    \/ Launch(w)
    \/ Arm2(w)
    \/ SupExit(w)

NextLive ==
    \/ Submit
    \/ \E t \in TaskIds : OperatorRequeue(t)
    \/ \E w \in Workers : WorkerStart(w)
    \/ \E w \in Workers : WorkerRuns(w)
    \/ \E w \in Workers : ChkExit(w)
    \/ \E w \in Workers : ProcExit(w)

\* A started worker keeps running its loop (time.sleep returns, the process
\* is scheduled), and preconditions and commands terminate.
Fairness ==
    /\ \A w \in Workers : WF_vars(WorkerRuns(w))
    /\ \A w \in Workers : WF_vars(ChkExit(w))
    /\ \A w \in Workers : WF_vars(ProcExit(w))

SpecLive == Init /\ [][NextLive]_vars /\ Fairness

\* ---- submit.py, one call step by step --------------------------------------
\* The command every call submits ("submitting the same command twice").
SameCmd == "exit 0"

\* The text submit() writes: chk, the separator, cmd (submit.py:19-21).
\* chk is the default "true" (submit.py:12).
Content(c) == <<"true", Separator, c>>

\* submit.py:8-9  the id is formatted from the seconds of `now' and from
\* time_ns() % 1_000_000_000.
FormatTaskId(now, time_ns) == <<now \div TicksPerSecond, time_ns % TicksPerSecond>>

\* Lexicographic order of two ids.
IdLess(a, b) == a[1] < b[1] \/ (a[1] = b[1] /\ a[2] < b[2])

\* The clock advances.
Tick ==
    /\ clock < MaxClock
    /\ clock' = clock + 1
    /\ UNCHANGED <<sub, qfile>>
    /\ UNCHANGED <<queueVars, fmt>>

\* submit.py:12-14, 7  submit() is called and make_task_id() reads
\* datetime.now(). pred records the calls that had returned, and had read the
\* clock for the last time at an earlier tick, when this one began.
SubmitNow(s) ==
    /\ sub[s].pc = "idle"
    /\ sub' = [sub EXCEPT ![s] =
                [@ EXCEPT !.pc = "now", !.cmd = SameCmd, !.now = clock,
                          !.pred = {u \in Submitters :
                                        /\ sub[u].pc = "returned"
                                        /\ sub[u].time_ns < clock}]]
    /\ UNCHANGED <<clock, qfile>>
    /\ UNCHANGED <<queueVars, fmt>>

\* submit.py:8-9, 14-15  make_task_id() reads time_ns() and returns the id;
\* `now' is not used after that
SubmitNanos(s) ==
    /\ sub[s].pc = "now"
    /\ sub' = [sub EXCEPT ![s] =
                [@ EXCEPT !.pc = "named", !.time_ns = clock, !.now = 0,
                          !.task_id = FormatTaskId(sub[s].now, clock)]]
    /\ UNCHANGED <<clock, qfile>>
    /\ UNCHANGED <<queueVars, fmt>>

\* submit.py:16-18  open(task_file, "w") creates the file at its final path,
\* or truncates the file that is there
SubmitOpen(s) ==
    /\ sub[s].pc = "named"
    /\ qfile' = [qfile EXCEPT ![sub[s].task_id] = <<>>]
    /\ sub' = [sub EXCEPT ![s] = [@ EXCEPT !.pc = "open"]]
    /\ UNCHANGED clock
    /\ UNCHANGED <<queueVars, fmt>>

\* submit.py:19-21  the three f.write() calls: the text goes to the buffer of
\* f, and what was written through to the file when the buffer filled up is
\* some prefix of it
SubmitWrite(s) ==
    /\ sub[s].pc = "open"
    /\ \E k \in 0..Len(Content(sub[s].cmd)) :
        qfile' = [qfile EXCEPT ![sub[s].task_id] = SubSeq(Content(sub[s].cmd), 1, k)]
    /\ sub' = [sub EXCEPT ![s] = [@ EXCEPT !.pc = "written"]]
    /\ UNCHANGED clock
    /\ UNCHANGED <<queueVars, fmt>>

\* submit.py:18, 23-24  leaving the with block flushes and closes f; submit()
\* returns the witness
SubmitClose(s) ==
    /\ sub[s].pc = "written"
    /\ qfile' = [qfile EXCEPT ![sub[s].task_id] = Content(sub[s].cmd)]
    /\ sub' = [sub EXCEPT ![s] = [@ EXCEPT !.pc = "returned"]]
    /\ UNCHANGED clock
    /\ UNCHANGED <<queueVars, fmt>>

NextSubmit ==
    \/ Tick
    \/ \E s \in Submitters : SubmitNow(s)
    \/ \E s \in Submitters : SubmitNanos(s)
    \/ \E s \in Submitters : SubmitOpen(s)
    \/ \E s \in Submitters : SubmitWrite(s)
    \/ \E s \in Submitters : SubmitClose(s)

\* No worker is started: the submit() calls and the clock alone.
NoDeployment == [workers |-> 0, tasks |-> 0]

InitSubmit ==
    /\ deploy = NoDeployment
    /\ QueueIdle
    /\ SubIdle
    /\ fmt = NoFmt

SpecSubmit == InitSubmit /\ [][NextSubmit]_vars

\* The submit() calls that have their task id.
Named == {s \in Submitters : sub[s].pc \in {"named", "open", "written", "returned"}}

\* ---- the task file format: submit.py:18-21 and worker.py:81-120 -------------
\* A text is a sequence of characters; NL is the line end.
NL == "\n"

\* Lines a precondition or a command is made of: a plain line, the separator
\* itself, lines that begin with or contain "---", and the same with "===".
Dashes == <<"-", "-", "-">>
Equals == <<"=", "=", "=">>
LineTexts ==
    {<<"a">>, Dashes, Dashes \o <<"a">>, <<"a">> \o Dashes,
     Equals \o <<"a">>, <<"a">> \o Equals}

\* Texts of up to MaxLines lines.
MaxLines == 2
LinesUpTo(n) == UNION {[1..k -> LineTexts] : k \in 0..n}

\* "\n".join(lines)
RECURSIVE Join(_)
Join(ls) ==
    IF ls = <<>> THEN <<>>
    ELSE IF Len(ls) = 1 THEN ls[1]
    ELSE ls[1] \o <<NL>> \o Join(Tail(ls))

\* submit.py:19-21  f.write(chk); f.write("\n---\n"); f.write(cmd)
FileText(chk, cmd) == chk \o (<<NL>> \o Dashes \o <<NL>>) \o cmd

\* Length of the first line of a non-empty text, its line end included.
RECURSIVE FirstLineLen(_)
FirstLineLen(txt) ==
    IF Len(txt) = 1 \/ txt[1] = NL THEN 1
    ELSE 1 + FirstLineLen(Tail(txt))

\* `for line in f': the lines of a text, each with its line end.
RECURSIVE FileLines(_)
FileLines(txt) ==
    IF txt = <<>> THEN <<>>
    ELSE LET n == FirstLineLen(txt) IN
         <<SubSeq(txt, 1, n)>> \o FileLines(SubSeq(txt, n + 1, Len(txt)))

\* line.startswith(prefix)
startswith(line, prefix) ==
    /\ Len(line) >= Len(prefix)
    /\ SubSeq(line, 1, Len(prefix)) = prefix

\* The lines before the first one that starts with prefix, concatenated.
RECURSIVE Upto(_, _)
Upto(ls, prefix) ==
    IF ls = <<>> \/ startswith(ls[1], prefix) THEN <<>>
    ELSE ls[1] \o Upto(Tail(ls), prefix)

\* The lines after the first one that starts with prefix.
RECURSIVE After(_, _)
After(ls, prefix) ==
    IF ls = <<>> THEN <<>>
    ELSE IF startswith(ls[1], prefix) THEN Tail(ls)
    ELSE After(Tail(ls), prefix)

\* worker.py:82-87  read check: the lines up to the first "---" line
read_check(txt) == Upto(FileLines(txt), Dashes)

\* Mutant of read_task: the header is not skipped.
read_taskNoSkip(txt) == Upto(FileLines(txt), Equals)

\* worker.py:112-120  read task: skip to the first "---" line, then the lines
\* up to the first "===" line
read_task(txt) == Upto(After(FileLines(txt), Dashes), Equals)

\* The lines of a text without their line ends (str.splitlines()).
StripNL(line) ==
    IF line # <<>> /\ line[Len(line)] = NL THEN SubSeq(line, 1, Len(line) - 1)
    ELSE line
splitlines(txt) == [i \in 1..Len(FileLines(txt)) |-> StripNL(FileLines(txt)[i])]

\* Task files that submit() did not write and that have no separator: texts
\* of up to MaxLines lines none of which starts with "---", the zero-byte
\* file among them.
RawTexts ==
    LET lines == {l \in LineTexts : ~startswith(l, Dashes)}
    IN {Join(ls) : ls \in UNION {[1..k -> lines] : k \in 0..MaxLines}}

\* A text the shell finds no command in.
Blank(txt) == \A i \in 1..Len(txt) : txt[i] = NL

\* Exit codes of subprocess.Popen(txt, shell=True): a text without a command
\* exits 0, any other text exits 0 or non-zero.
ShellExits(txt) == IF Blank(txt) THEN {0} ELSE {0, 1}

\* worker.py:125  f.write(f"\n=== {worker_id} ===\n")
Banner == <<NL>> \o Equals \o <<" ", "w", " ">> \o Equals \o <<NL>>

\* Lines a command prints into the task file.
OutputTexts == {<<"a">>, Dashes, Equals \o <<"a">>}

\* submit(queue_dir, cmd, chk) writes the task file.
FmtSubmit ==
    /\ fmt.pc = "args"
    /\ fmt' = [fmt EXCEPT !.pc = "file",
                          !.text = FileText(Join(fmt.chk), Join(fmt.cmd))]
    /\ UNCHANGED <<queueVars, subVars>>

\* worker.py:81-87  the worker that claimed the task reads the precondition
FmtReadCheck ==
    /\ fmt.pc = "file"
    /\ fmt' = [fmt EXCEPT !.pc = "check", !.rchk = read_check(fmt.text)]
    /\ UNCHANGED <<queueVars, subVars>>

\* worker.py:89-97  the precondition exits non-zero: the file is renamed
\* back into ready, where a later pass finds it (back records that this
\* happened)
FmtCheckFails ==
    /\ fmt.pc = "check"
    /\ \E e \in ShellExits(fmt.rchk) : e # 0
    /\ fmt' = [fmt EXCEPT !.pc = "file", !.rchk = <<>>, !.back = TRUE]
    /\ UNCHANGED <<queueVars, subVars>>

\* worker.py:89-101, 111-120  the precondition exits 0; after the promotion
\* the worker reads the command.
\* chk1 and cmd1 keep what the first run of the task read.
FmtReadTask ==
    /\ fmt.pc = "check"
    /\ 0 \in ShellExits(fmt.rchk)
    /\ LET c == read_task(fmt.text) IN
        fmt' = [fmt EXCEPT !.pc = "task", !.rcmd = c,
                           !.chk1 = IF fmt.run = 0 THEN fmt.rchk ELSE @,
                           !.cmd1 = IF fmt.run = 0 THEN c ELSE @]
    /\ UNCHANGED <<queueVars, subVars>>

\* The operator pauses the task the worker has promoted (mv active paused)
\* before the worker opens it for the launch: the file is no longer at the
\* worker's path.
FmtPause ==
    /\ fmt.pc = "task"
    /\ fmt.at
    /\ fmt' = [fmt EXCEPT !.at = FALSE]
    /\ UNCHANGED <<queueVars, subVars>>

\* worker.py:124-132  open(task_file, "a") opens the file at the worker's
\* path, or creates an empty one when none is there; the banner is written
\* and the command is started with the file as its output
FmtLaunch ==
    /\ fmt.pc = "task"
    /\ fmt.run < MaxRuns
    /\ fmt' = [fmt EXCEPT !.pc = "running", !.run = @ + 1, !.at = TRUE,
                          !.text = (IF fmt.at THEN @ ELSE <<>>) \o Banner]
    /\ UNCHANGED <<queueVars, subVars>>

\* The command prints a line (worker.py:129-130, stdout=f, stderr=f).
FmtOutput ==
    /\ fmt.pc = "running"
    /\ ~Blank(fmt.rcmd)
    /\ \E o \in OutputTexts :
        fmt' = [fmt EXCEPT !.pc = "wrote", !.text = @ \o o \o <<NL>>]
    /\ UNCHANGED <<queueVars, subVars>>

\* worker.py:134-137  SIGTERM: the run is aborted and the file at the
\* worker's path is renamed into ready, where the next run finds it
FmtRelease ==
    /\ fmt.pc \in {"running", "wrote"}
    /\ fmt' = [fmt EXCEPT !.pc = "file", !.rchk = <<>>, !.rcmd = <<>>]
    /\ UNCHANGED <<queueVars, subVars>>

\* worker.py:142, 164-170  the command exits: rename into done or failed
FmtExit ==
    /\ fmt.pc \in {"running", "wrote"}
    /\ \E e \in ShellExits(fmt.rcmd) :
        fmt' = [fmt EXCEPT !.pc = IF e = 0 THEN "done" ELSE "failed"]
    /\ UNCHANGED <<queueVars, subVars>>

NextFormat ==
    \/ FmtSubmit
    \/ FmtReadCheck
    \/ FmtCheckFails
    \/ FmtReadTask
    \/ FmtPause
    \/ FmtLaunch
    \/ FmtOutput
    \/ FmtRelease
    \/ FmtExit

\* One submit() call with a precondition of one to MaxLines lines and a
\* command of up to MaxLines lines, or one file without a separator that
\* lies in ready, and the workers that parse and run the file.
InitFormat ==
    /\ deploy = NoDeployment
    /\ QueueIdle
    /\ SubIdle
    /\ \/ \E c \in LinesUpTo(MaxLines) \ {<<>>}, m \in LinesUpTo(MaxLines) :
            fmt = [NoFmt EXCEPT !.pc = "args", !.chk = c, !.cmd = m]
       \/ \E txt \in RawTexts :
            fmt = [NoFmt EXCEPT !.pc = "file", !.raw = TRUE, !.text = txt,
                                !.orig = txt]

SpecFormat == InitFormat /\ [][NextFormat]_vars

\* ---- shared vocabulary of the properties --------------------------------
\* The properties name the worker's directories by the names the code gives
\* them: the directory the worker claims from is ReadyDir (the
\* specification's `queued'), the precondition directory is CheckDir (the
\* specification's `checking').

\* w holds task t: it renamed t out of ready and has not let go of it.
Holds(w, t) ==
    /\ pc[w] \in {"chk", "promoted", "armed", "parsed", "launched", "sup",
                  "moved", "pausewait", "resume"}
    /\ task_id[w] = t

\* w is past the promotion of its task into active.
Promoted(w) ==
    pc[w] \in {"promoted", "armed", "parsed", "launched", "sup", "moved",
               "pausewait", "resume"}

\* w has launched the command of its task and supervises it.
Supervises(w) == pc[w] \in {"sup", "moved", "pausewait", "resume"}

\* A task whose precondition exits 0 and whose command exits 0.
Happy(t) == file[t].chk = ShTrue /\ file[t].cmd = "exit 0"

\* ---- C1 -------------------------------------------------------------------
\* C1: once a worker has started, the six state directories queued, checking,
\* active, paused, done and failed exist under Q, and the directory the worker
\* snapshots and claims from is the directory submit writes task files into.
C1_StartupDirs ==
    \A w \in Workers :
        pc[w] # "init" =>
            /\ SpecStateDirs \subseteq exist
            /\ ReadyDir = SubmitDir

\* ---- C2 -------------------------------------------------------------------
\* C2 (happy path, in the form a finite run refutes): a persist=false worker
\* does not take the empty-snapshot exit while a task that submit created, whose
\* precondition and command both exit 0, still lies where submit put it; the
\* worker moves such a task to done first.
C2_HappyPath ==
    [][\A w \in Workers :
        (pc[w] = "loop" /\ pc'[w] = "exited" /\ exit_status'[w] = "yield")
            => \A t \in dirs[SubmitDir] : ~Happy(t)]_vars

\* ---- C3 -------------------------------------------------------------------
\* C3: of the workers that race for the same task t exactly one wins the rename
\* out of the claim directory, so at most one worker holds t at any time; an
\* attempt on a file that is there succeeds and moves it into the check
\* directory, and a worker whose rename fails goes on with the for loop
\* without starting a precondition or a command.
C3_AtMostOneHolder ==
    \A t \in TaskIds : Cardinality({w \in Workers : Holds(w, t)}) <= 1

C3_Attempt ==
    \A w \in Workers :
        (/\ pc[w] = "for"
         /\ task_file_list[w] # <<>>
         /\ task_file_list'[w] # task_file_list[w]
         /\ pc'[w] # "exited")
        => LET t == Head(task_file_list[w]) IN
            IF Exists(ReadyDir, t)
            THEN /\ pc'[w] = "chk"
                 /\ task_id'[w] = t
                 /\ t \in dirs'[CheckDir]
                 /\ t \notin dirs'[ReadyDir]
            ELSE /\ pc'[w] = "for"
                 /\ chk_proc'[w] # "running"
                 /\ proc'[w] = proc[w]
                 /\ dirs' = dirs

C3_ExclusiveClaim == []C3_AtMostOneHolder /\ [][C3_Attempt]_vars

\* Witness of C3: w1 holds t while w2, which had the only task t in its
\* snapshot, has been through its for loop without ever being promoted.
C3_Witness ==
    \E w1 \in Workers, w2 \in Workers, t \in TaskIds :
        /\ w1 # w2
        /\ deploy.tasks = 1
        /\ file[t].chk = ShTrue
        /\ Holds(w1, t)
        /\ pc[w2] = "for"
        /\ task_file_list[w2] = <<>>
        /\ ~persist[w2]
        /\ handler[w2] = "default"

\* ---- C4 -------------------------------------------------------------------
\* C4: every task id appears in at most one of the six state directories.
C4_OneDirectory ==
    \A t \in TaskIds : Cardinality({d \in StateDirs : t \in dirs[d]}) <= 1

\* ---- C5 -------------------------------------------------------------------
\* C5: when a worker exits with status 0 from its SIGTERM handler, the task it
\* held in active is, under the same basename, in the claim directory after
\* the exit and no longer in active.
C5_Release ==
    \A w \in Workers :
        (exit_status[w] # "released" /\ exit_status'[w] = "released")
        => /\ task_file[w] = ActiveDir
           /\ task_id[w] \in dirs[ActiveDir]
           /\ task_id[w] \in dirs'[ReadyDir]
           /\ task_id[w] \notin dirs'[ActiveDir]

C5_ReleasedToReady == [][C5_Release]_vars

C5_Witness ==
    \E w \in Workers :
        /\ exit_status[w] = "released"
        /\ task_id[w] \in dirs[ReadyDir]

\* ---- C6 -------------------------------------------------------------------
\* C6: once a worker has released its task on SIGTERM and exited, no process
\* of the command it launched is alive.
C6_TreeGone ==
    \A w \in Workers : exit_status[w] = "released" => ~Alive(proc[w])

\* ---- C7 -------------------------------------------------------------------
\* C7: a task t2 whose precondition is the witness of t1 is promoted (is in
\* active, paused, done or failed) only when t1 is in done.
C7_Gating ==
    \A t1 \in Submitted, t2 \in Submitted :
        (/\ file[t2].chk = returned[t1]
         /\ t2 \in (dirs[ActiveDir] \cup dirs[PausedDir] \cup dirs[DoneDir]
                        \cup dirs[FailedDir]))
        => t1 \in dirs[DoneDir]

C7_Witness ==
    \E t1 \in Submitted, t2 \in Submitted :
        /\ file[t2].chk = returned[t1]
        /\ t2 \in dirs[ActiveDir]
        /\ t1 \in dirs[DoneDir]

\* ---- C8 -------------------------------------------------------------------
\* C8: the witness submit returned for t exits 0 exactly in the states where
\* t is in the worker's done directory.
C8_WitnessIffDone ==
    \A t \in Submitted :
        (ShExit(returned[t], dirs) = 0) <=> (t \in dirs[DoneDir])

C8_Witness ==
    \E t \in Submitted :
        /\ t \in dirs[DoneDir]
        /\ ShExit(returned[t], dirs) = 0

\* ---- C9 -------------------------------------------------------------------
\* C9: when the command has exited and the file is at its active path, the
\* worker renames it into done if the exit code is 0 and into failed
\* otherwise; a task in done has a command that exits 0, a task in failed one
\* that exits non-zero; a task in failed stays there and no worker launches it.
C9_ByExitCode ==
    \A t \in TaskIds :
        /\ t \in dirs[DoneDir] => CmdExit(file[t].cmd) = 0
        /\ t \in dirs[FailedDir] => CmdExit(file[t].cmd) # 0

C9_Rename ==
    \A w \in Workers :
        (/\ pc[w] = "sup"
         /\ proc[w] \in {"exit0", "exit1"}
         /\ proc'[w] = "gone"
         /\ exit_status'[w] \in {"none", "yield"})
        => /\ task_id[w] \in dirs[ActiveDir]
           /\ task_id[w] \notin dirs'[ActiveDir]
           /\ IF proc[w] = "exit0"
              THEN task_id[w] \in dirs'[DoneDir] /\ dirs'[FailedDir] = dirs[FailedDir]
              ELSE task_id[w] \in dirs'[FailedDir] /\ dirs'[DoneDir] = dirs[DoneDir]

C9_NoRetry ==
    /\ \A t \in dirs[FailedDir] : t \in dirs'[FailedDir]
    /\ \A w \in Workers :
        (proc[w] # "running" /\ proc'[w] = "running" /\ pc'[w] = "launched")
            => task_id[w] \notin dirs[FailedDir]

C9_Outcome == []C9_ByExitCode /\ [][C9_Rename /\ C9_NoRetry]_vars

C9_Witness ==
    \E t1 \in TaskIds, t2 \in TaskIds :
        /\ t1 \in dirs[DoneDir]
        /\ t2 \in dirs[FailedDir]

\* ---- C10 ------------------------------------------------------------------
\* C10: a worker that acts on a precondition that exited non-zero renames the
\* task from the check directory back into the claim directory and continues
\* its for loop; the task does not enter failed and no command is started; a
\* worker is past the promotion only with a precondition that exited 0, and a
\* task enters failed only from a command that exited non-zero.
C10_PromotedOnZero ==
    \A w \in Workers : Promoted(w) => chk_proc[w] = "exit0"

C10_FailedCheck ==
    \A w \in Workers :
        (/\ pc[w] = "chk"
         /\ chk_proc[w] = "exit1"
         /\ pc'[w] \notin {"chk", "exited"})
        => /\ pc'[w] = "for"
           /\ task_id[w] \in dirs[CheckDir]
           /\ task_id[w] \in dirs'[ReadyDir]
           /\ task_id[w] \notin dirs'[CheckDir]
           /\ dirs'[FailedDir] = dirs[FailedDir]
           /\ proc'[w] = proc[w]

C10_FailedOnlyByCommand ==
    \A t \in TaskIds :
        (t \notin dirs[FailedDir] /\ t \in dirs'[FailedDir])
            => \E w \in Workers :
                pc[w] = "sup" /\ task_id[w] = t /\ proc[w] = "exit1"

C10_PreconditionGates ==
    []C10_PromotedOnZero /\ [][C10_FailedCheck /\ C10_FailedOnlyByCommand]_vars

\* Witness of C10: the only worker, never promoted, has been through a
\* non-empty snapshot, and a task with a failing precondition is back in the
\* claim directory.
C10_Witness ==
    \E w \in Workers, t \in TaskIds :
        /\ deploy.workers = 1
        /\ pc[w] = "for"
        /\ task_file_list[w] = <<>>
        /\ ~persist[w]
        /\ handler[w] = "default"
        /\ Submitted \subseteq dirs[ReadyDir]
        /\ t \in dirs[ReadyDir]
        /\ file[t].chk = ShFalse

\* ---- C11 ------------------------------------------------------------------
\* C11: a task file that is visible under its id in the queue holds the whole
\* text of the task: precondition, separator and command.
C11_AtomicSubmit ==
    \A i \in IdSet :
        qfile[i] # NoQFile =>
            \E s \in Named : sub[s].task_id = i /\ qfile[i] = Content(sub[s].cmd)

\* ---- C12 ------------------------------------------------------------------
\* C12: any two submit calls have different task ids.
C12_DistinctIds ==
    \A s1 \in Named, s2 \in Named :
        s1 # s2 => sub[s1].task_id # sub[s2].task_id

\* ---- C13 ------------------------------------------------------------------
\* C13: when a submit call returned before another began, and the clock
\* advanced between the last clock read of the first and the first clock read
\* of the second, the id of the first is lexicographically smaller than the id
\* of the second.
C13_OrderedIds ==
    \A s2 \in Named :
        \A s1 \in sub[s2].pred : IdLess(sub[s1].task_id, sub[s2].task_id)

\* ---- C14 ------------------------------------------------------------------
\* C14: the banner count of a task changes only by one, and only in the step
\* in which a worker holding the task launches its command; every launch adds
\* one banner; claims and precondition runs add none. A task that is in done
\* without any worker having released it carries exactly one banner.
C14_OnlyAtLaunch ==
    \A t \in TaskIds :
        banners'[t] # banners[t] =>
            /\ banners'[t] = banners[t] + 1
            /\ \E w \in Workers :
                /\ task_id[w] = t
                /\ pc[w] = "parsed"
                /\ pc'[w] = "launched"
                /\ proc'[w] = "running"

C14_EveryLaunch ==
    \A w \in Workers :
        (pc[w] = "parsed" /\ pc'[w] = "launched")
            => banners'[task_id[w]] = banners[task_id[w]] + 1

C14_FirstRun ==
    \A t \in TaskIds :
        (/\ t \in dirs[DoneDir]
         /\ \A w \in Workers : exit_status[w] # "released")
        => banners[t] = 1

C14_OneBannerPerRun ==
    []C14_FirstRun /\ [][C14_OnlyAtLaunch /\ C14_EveryLaunch]_vars

\* Witness of C14: two workers were started on one task; one of them lost the
\* claim and went through its for loop without a promotion, the task is in
\* done and has one banner.
C14_Witness ==
    \E w2 \in Workers, t \in TaskIds :
        /\ deploy.workers >= 2
        /\ Happy(t)
        /\ t \in dirs[DoneDir]
        /\ banners[t] = 1
        /\ pc[w2] = "for"
        /\ task_file_list[w2] = <<>>
        /\ ~persist[w2]
        /\ handler[w2] = "default"

\* ---- C15 ------------------------------------------------------------------
\* C15: while the file of the task a worker supervises is in paused (and not
\* at its active path), the worker finds it there and sends SIGSTOP to the
\* tree, performs no rename, and stays in supervision also when it polls the
\* command; when the worker finds the file back in active it sends SIGCONT
\* and goes on supervising.
C15_WhilePaused ==
    \A w \in Workers :
        (/\ Supervises(w)
         /\ task_id[w] \in dirs[PausedDir]
         /\ task_id[w] \notin dirs[ActiveDir])
        => /\ SupMoved(w) => (proc'[w] = SigStop(proc[w]) /\ pc'[w] = "pausewait")
           /\ SupExit(w) => Supervises(w)'
           /\ pc'[w] # pc[w] => dirs' = dirs

C15_BackInActive ==
    \A w \in Workers :
        (/\ Resume(w)
         /\ task_id[w] \in dirs[ActiveDir])
        => (proc'[w] = SigCont(proc[w]) /\ pc'[w] = "sup" /\ dirs' = dirs)

C15_PauseResume == [][C15_WhilePaused /\ C15_BackInActive]_vars

\* ---- C16 ------------------------------------------------------------------
\* C16: when the file of the task a worker supervises is neither in active
\* nor in paused, the worker kills the tree, renames nothing and continues
\* its for loop; it does so too when the command has exited meanwhile.
C16_Deleted ==
    \A w \in Workers :
        (/\ Supervises(w)
         /\ task_id[w] \notin dirs[ActiveDir]
         /\ task_id[w] \notin dirs[PausedDir])
        => /\ (SupMoved(w) \/ Resume(w) \/ SupExit(w)) =>
                    (proc'[w] = "gone" /\ pc'[w] = "for")
           /\ pc'[w] # pc[w] => dirs' = dirs

C16_ExternalDeletion == [][C16_Deleted]_vars

\* ---- C17 ------------------------------------------------------------------
\* C17: a worker started with one_task=true does not go back to its for loop
\* once it has promoted a task: when that task is done, failed or deleted the
\* worker exits.
C17_Yields ==
    \A w \in Workers :
        (one_task[w] /\ Promoted(w)) => pc'[w] # "for"

C17_OneTask == [][C17_Yields]_vars

\* ---- C18 ------------------------------------------------------------------
\* C18: a worker that takes a snapshot exits with status 0 if persist is
\* false and the claim directory is empty, and enters its for loop otherwise;
\* at the end of the for loop it goes back to take the next snapshot; a
\* status-0 exit that is not a release happens only on an empty snapshot of a
\* persist=false worker or, with one_task, right after the rename of the
\* worker's task into done or failed, so never with a task held in check or
\* active.
C18_AtSnapshot ==
    \A w \in Workers :
        Snapshot(w) =>
            IF ~persist[w] /\ dirs[ReadyDir] = {}
            THEN pc'[w] = "exited" /\ exit_status'[w] = "yield"
            ELSE pc'[w] = "for" /\ exit_status'[w] = "none"

C18_Idles ==
    \A w \in Workers : ForEnd(w) => pc'[w] = "loop"

C18_Voluntary ==
    \A w \in Workers :
        (exit_status[w] # "yield" /\ exit_status'[w] = "yield") =>
            \/ /\ pc[w] = "loop"
               /\ ~persist[w]
               /\ dirs[ReadyDir] = {}
            \/ /\ pc[w] = "sup"
               /\ one_task[w]
               /\ task_id[w] \in dirs'[DoneDir] \cup dirs'[FailedDir]
               /\ task_id[w] \notin dirs'[CheckDir] \cup dirs'[ActiveDir]

C18_NoYieldWhileHolding ==
    \A w \in Workers, t \in TaskIds :
        (Holds(w, t) /\ pc[w] # "sup") => exit_status'[w] # "yield"

C18_PersistAndYield ==
    [][C18_AtSnapshot /\ C18_Idles /\ C18_Voluntary /\ C18_NoYieldWhileHolding]_vars

\* Witness of C18: on a queue nothing was submitted to, one worker has exited
\* with status 0 and a persist=true worker is in its for loop on an empty
\* snapshot.
C18_Witness ==
    \E w1 \in Workers, w2 \in Workers :
        /\ Submitted = {}
        /\ exit_status[w1] = "yield"
        /\ persist[w2]
        /\ pc[w2] = "for"
        /\ task_file_list[w2] = <<>>

\* ---- C19 ------------------------------------------------------------------
\* C19: a step of a worker that changes the directories is one rename of one
\* file: claim directory -> check (the claim), check -> claim directory
\* (precondition exited non-zero), check -> active (precondition exited 0),
\* active -> done (command exited 0), active -> failed (command exited
\* non-zero) or active -> claim directory (SIGTERM handler); the one other
\* change is the file that open(task_file, "a") creates in active at the
\* launch, which is not a rename. No such step touches paused or takes a file
\* out of done or failed.
C19_Step(w) ==
    LET t == IF pc[w] = "for" THEN Head(task_file_list[w]) ELSE task_id[w] IN
    \/ /\ pc[w] = "for"
       /\ t \in dirs[ReadyDir]
       /\ dirs' = Rename(dirs, ReadyDir, CheckDir, t)
    \/ /\ pc[w] = "chk"
       /\ chk_proc[w] = "exit1"
       /\ t \in dirs[CheckDir]
       /\ dirs' = Rename(dirs, CheckDir, ReadyDir, t)
    \/ /\ pc[w] = "chk"
       /\ chk_proc[w] = "exit0"
       /\ t \in dirs[CheckDir]
       /\ dirs' = Rename(dirs, CheckDir, ActiveDir, t)
    \/ /\ pc[w] = "sup"
       /\ proc[w] = "exit0"
       /\ t \in dirs[ActiveDir]
       /\ dirs' = Rename(dirs, ActiveDir, DoneDir, t)
    \/ /\ pc[w] = "sup"
       /\ proc[w] = "exit1"
       /\ t \in dirs[ActiveDir]
       /\ dirs' = Rename(dirs, ActiveDir, FailedDir, t)
    \/ /\ handler[w] # "default"
       /\ exit_status'[w] = "released"
       /\ t \in dirs[ActiveDir]
       /\ dirs' = Rename(dirs, ActiveDir, ReadyDir, t)
    \/ /\ pc[w] = "parsed"
       /\ pc'[w] = "launched"
       /\ dirs' = [dirs EXCEPT ![ActiveDir] = @ \cup {t}]

C19_Renames ==
    \A w \in Workers :
        (pc'[w] # pc[w] /\ dirs' # dirs) =>
            /\ C19_Step(w)
            /\ dirs'[PausedDir] = dirs[PausedDir]
            /\ dirs[DoneDir] \subseteq dirs'[DoneDir]
            /\ dirs[FailedDir] \subseteq dirs'[FailedDir]

C19_WorkerRenames == [][C19_Renames]_vars

\* Witness of C19: a worker has released its task from its SIGTERM handler
\* and the task was then claimed again, checked, promoted and finished.
C19_Witness ==
    \E w \in Workers, t \in TaskIds :
        /\ exit_status[w] = "released"
        /\ task_id[w] = t
        /\ t \in dirs[DoneDir] \cup dirs[FailedDir]

\* ---- C20 ------------------------------------------------------------------
\* C20: no step of a worker (its loop or a SIGTERM handler) changes where a
\* task that is in done or failed has its files, nor appends a banner to it.
C20_Untouched ==
    \A w \in Workers, t \in TaskIds :
        (/\ pc'[w] # pc[w]
         /\ t \in dirs[DoneDir] \cup dirs[FailedDir])
        => /\ \A d \in AllDirs : (t \in dirs'[d]) <=> (t \in dirs[d])
           /\ banners'[t] = banners[t]

C20_TerminalIsFinal == [][C20_Untouched]_vars

\* Witness of C20: every submitted task is in done or failed, nothing lies in
\* another directory, and the worker ended with an error: SIGTERM reached it
\* after the terminal rename, with the second handler still registered.
C20_Witness ==
    \E w \in Workers :
        /\ exit_status[w] = "error"
        /\ Submitted # {}
        /\ Submitted \subseteq dirs[DoneDir] \cup dirs[FailedDir]
        /\ \A d \in AllDirs \ {DoneDir, FailedDir} : dirs[d] = {}

\* ---- C21 ------------------------------------------------------------------
\* C21: once the worker has parsed the file that submit wrote for chk and cmd,
\* the precondition it read has the lines of chk and the command it read has
\* the lines of cmd, whatever lines chk and cmd are made of (lines that begin
\* with or contain "---" or "===" included).
C21_RoundTrip ==
    (~fmt.raw /\ fmt.pc = "task" /\ fmt.run = 0) =>
        /\ splitlines(fmt.rchk) = fmt.chk
        /\ splitlines(fmt.rcmd) = fmt.cmd

\* ---- C22 ------------------------------------------------------------------
\* C22: no worker ends through an unhandled error: a worker that has ended
\* has exited with status 0 (a release from its SIGTERM handler or a
\* voluntary yield) or, with no handler registered, was terminated by the
\* signal itself.
C22_NoUnhandledError ==
    \A w \in Workers : exit_status[w] # "error"

\* ---- C23 ------------------------------------------------------------------
\* C23: the start of a worker on a queue whose state directories exist
\* creates no directory, and neither the start nor the worker's first
\* snapshot moves, deletes or modifies a task file: every file stays in its
\* directory with its text and its banners; no directory ever disappears.
C23_Start ==
    \A w \in Workers :
        WorkerStart(w) =>
            /\ StateDirs \subseteq exist => exist' = exist
            /\ exist \subseteq exist'
            /\ dirs' = dirs
            /\ file' = file
            /\ banners' = banners

C23_FirstSnapshot ==
    \A w \in Workers :
        (Snapshot(w) /\ handler[w] = "default" /\ task_id[w] = 0) =>
            (exist' = exist /\ dirs' = dirs /\ file' = file /\ banners' = banners)

C23_IdempotentStart == [][C23_Start /\ C23_FirstSnapshot]_vars

\* Witness of C23: a second worker was started and is about to take its first
\* snapshot while the first worker supervises the task, which lies in active
\* with its banner.
C23_Witness ==
    \E w1 \in Workers, w2 \in Workers, t \in TaskIds :
        /\ w1 # w2
        /\ pc[w1] = "sup"
        /\ task_id[w1] = t
        /\ t \in dirs[ActiveDir]
        /\ banners[t] = 1
        /\ pc[w2] = "loop"
        /\ handler[w2] = "default"
        /\ task_id[w2] = 0

\* ---- C24 ------------------------------------------------------------------
\* C24: at most one precondition subprocess of a task runs at any time
\* (subprocesses that outlived their worker included); a precondition is
\* started only in the step in which its worker renames the task from the
\* claim directory into check, and a task leaves check only by a rename of
\* the worker that holds it, after its precondition has exited.
RunsCheck(w, t) == chk_proc[w] = "running" /\ task_id[w] = t

C24_OneCheck ==
    \A t \in TaskIds : Cardinality({w \in Workers : RunsCheck(w, t)}) <= 1

C24_StartedByClaimer ==
    \A w \in Workers :
        (chk_proc[w] # "running" /\ chk_proc'[w] = "running") =>
            /\ pc[w] = "for"
            /\ task_id'[w] \in dirs[ReadyDir]
            /\ dirs' = Rename(dirs, ReadyDir, CheckDir, task_id'[w])

C24_LeavesByHolder ==
    \A t \in TaskIds :
        (t \in dirs[CheckDir] /\ t \notin dirs'[CheckDir]) =>
            \E w \in Workers :
                /\ pc[w] = "chk"
                /\ task_id[w] = t
                /\ chk_proc[w] \in {"exit0", "exit1"}
                /\ pc'[w] # pc[w]

C24_ExclusiveCheck ==
    []C24_OneCheck /\ [][C24_StartedByClaimer /\ C24_LeavesByHolder]_vars

\* Witness of C24: a worker was terminated while the precondition of t ran;
\* the precondition still runs, t lies in check, and the other worker went
\* through a snapshot and its for loop without starting a precondition.
C24_Witness ==
    \E w1 \in Workers, w2 \in Workers, t \in TaskIds :
        /\ w1 # w2
        /\ pc[w1] = "exited"
        /\ RunsCheck(w1, t)
        /\ t \in dirs[CheckDir]
        /\ pc[w2] = "for"
        /\ task_file_list[w2] = <<>>
        /\ chk_proc[w2] = "none"

\* ---- C25 ------------------------------------------------------------------
\* C25: at most one command process tree of a task is alive (running or
\* stopped) at any time, trees that outlived their worker included.
C25_OneTreePerTask ==
    \A t \in TaskIds :
        Cardinality({w \in Workers : Alive(proc[w]) /\ task_id[w] = t}) <= 1

\* ---- C26 ------------------------------------------------------------------
\* C26: when SIGTERM reaches a worker that has promoted its task and has not
\* yet renamed it into done or failed, and the task file lies in active or in
\* paused, then after the step that ends the worker the task is in the claim
\* directory and neither in active nor in paused.
C26_Sigterm ==
    \A w \in Workers :
        (/\ SigtermDefault(w) \/ SigtermH1(w) \/ SigtermH2(w)
         /\ Promoted(w)
         /\ task_id[w] \in dirs[ActiveDir] \cup dirs[PausedDir])
        => /\ task_id[w] \in dirs'[ReadyDir]
           /\ task_id[w] \notin dirs'[ActiveDir] \cup dirs'[PausedDir]

C26_NoTaskLost == [][C26_Sigterm]_vars

\* ---- C27 ------------------------------------------------------------------
\* C27: the supervise loop takes its "task was deleted" branch (SIGKILL to
\* the tree, break) only when the file of the task is neither in active nor
\* in paused; a file the operator moved between the two is never treated as
\* deleted.
C27_KilledAsDeleted(w) ==
    /\ SupMoved(w) \/ Resume(w)
    /\ pc'[w] = "for"

C27_OnlyIfDeleted ==
    \A w \in Workers :
        C27_KilledAsDeleted(w) =>
            task_id[w] \notin dirs[ActiveDir] \cup dirs[PausedDir]

C27_KillOnlyDeleted == [][C27_OnlyIfDeleted]_vars

\* ---- C28 ------------------------------------------------------------------
\* C28: when SIGTERM reaches a worker whose current task is in check (claimed,
\* not yet promoted), no handler is registered: the signal itself terminates
\* the worker, no file is renamed and the task stays in check. This holds for
\* every task the worker handles, the first and the later ones.
C28_Sigterm ==
    \A w \in Workers :
        (/\ SigtermDefault(w) \/ SigtermH1(w) \/ SigtermH2(w)
         /\ pc[w] = "chk")
        => /\ handler[w] = "default"
           /\ exit_status'[w] = "signal"
           /\ dirs' = dirs
           /\ task_id[w] \in dirs'[CheckDir]

C28_NoHandlerInCheck == [][C28_Sigterm]_vars

\* ---- C29 ------------------------------------------------------------------
\* C29: while a persistent worker (persist=true, one_task=false) runs, every
\* task in the claim directory whose precondition exits 0 is eventually
\* launched, whatever the preconditions of the other tasks do.
C29_Waiting(t) ==
    /\ t \in dirs[ReadyDir]
    /\ file[t].chk = ShTrue
    /\ \E w \in Workers : Running(w) /\ persist[w] /\ ~one_task[w]

C29_EventuallyLaunched ==
    \A t \in TaskIds : C29_Waiting(t) ~> (banners[t] > 0)

\* Witness of C29: the one persistent worker has launched the second task,
\* whose precondition exits 0, while the first task, whose precondition
\* exits non-zero, is back in the claim directory.
C29_Witness ==
    \E w \in Workers, t1 \in TaskIds, t2 \in TaskIds :
        /\ deploy.workers = 1
        /\ t1 < t2
        /\ file[t1].chk = ShFalse
        /\ t1 \in dirs[ReadyDir]
        /\ file[t2].chk = ShTrue
        /\ banners[t2] > 0
        /\ persist[w] /\ ~one_task[w]
        /\ task_id[w] = t2

\* ---- C30 ------------------------------------------------------------------
\* C30: a running worker that was started with persist=false eventually
\* exits, whatever the preconditions of the submitted tasks are.
C30_EventuallyExits ==
    \A w \in Workers : (Running(w) /\ ~persist[w]) ~> (pc[w] = "exited")

\* ---- C31 ------------------------------------------------------------------
\* C31: the entries of a worker's snapshot that are still to be attempted
\* are in strictly ascending id order. A snapshot holds exactly the tasks
\* that are in the claim directory when it is taken. An attempt takes the
\* first remaining entry, and every entry left is larger than it, so no task
\* is attempted twice in one snapshot, a task returned after a failed
\* precondition among them. No other step changes the remaining entries
\* (submits and moves into the claim directory do not add to them) except
\* that the end of the worker discards them.
C31_Ascending ==
    \A w \in Workers :
        \A i \in 1..Len(task_file_list[w]), j \in 1..Len(task_file_list[w]) :
            i < j => task_file_list[w][i] < task_file_list[w][j]

C31_Snapshot ==
    \A w \in Workers :
        (Snapshot(w) /\ pc'[w] = "for") =>
            /\ {task_file_list'[w][i] : i \in 1..Len(task_file_list'[w])} = dirs[ReadyDir]
            /\ Len(task_file_list'[w]) = Cardinality(dirs[ReadyDir])

C31_Attempt ==
    \A w \in Workers :
        (ClaimOk(w) \/ ClaimLost(w)) =>
            /\ task_file_list'[w] = Tail(task_file_list[w])
            /\ pc'[w] = "chk" => task_id'[w] = Head(task_file_list[w])
            /\ \A i \in 1..Len(task_file_list'[w]) :
                    task_file_list'[w][i] > Head(task_file_list[w])

C31_Fixed ==
    \A w \in Workers :
        (task_file_list'[w] # task_file_list[w]) =>
            \/ Snapshot(w)
            \/ ClaimOk(w) \/ ClaimLost(w)
            \/ pc'[w] = "exited" /\ task_file_list'[w] = <<>>

C31_SnapshotOrder ==
    []C31_Ascending /\ [][C31_Snapshot /\ C31_Attempt /\ C31_Fixed]_vars

\* Witness of C31: the worker runs the precondition of the second task with
\* nothing left of its snapshot, while the first task, whose precondition
\* exits non-zero, lies in the claim directory: returned there after its
\* failed attempt, or moved there after the snapshot was taken.
C31_Witness ==
    \E w \in Workers, t1 \in TaskIds, t2 \in TaskIds :
        /\ t1 < t2
        /\ file[t1].chk = ShFalse
        /\ t1 \in dirs[ReadyDir]
        /\ pc[w] = "chk"
        /\ task_id[w] = t2
        /\ task_file_list[w] = <<>>
        /\ handler[w] = "default"

\* ---- C32 ------------------------------------------------------------------
\* C32: on every run of a submitted task after an aborted one, the precondition and
\* the command the worker reads have the lines of the precondition and of
\* the command its first run read (an empty last line, which the line end
\* in front of the banner adds, is not counted).
RECURSIVE DropEmptyTail(_)
DropEmptyTail(ls) ==
    IF ls # <<>> /\ ls[Len(ls)] = <<>> THEN DropEmptyTail(SubSeq(ls, 1, Len(ls) - 1))
    ELSE ls

SameLines(a, b) == DropEmptyTail(splitlines(a)) = DropEmptyTail(splitlines(b))

C32_SameOnRerun ==
    (~fmt.raw /\ fmt.pc = "task" /\ fmt.run > 0) =>
        /\ SameLines(fmt.rchk, fmt.chk1)
        /\ SameLines(fmt.rcmd, fmt.cmd1)

\* ---- C33 ------------------------------------------------------------------
\* C33: for a task file without a separator line the worker reads the whole
\* content as the precondition and an empty command. When the precondition
\* exits non-zero the file goes back to the claim directory unchanged;
\* otherwise the task is launched and ends in done, never in failed. A
\* zero-byte file has an empty precondition, which cannot exit non-zero, and
\* an empty command: it goes straight to done.
C33_WholeContent ==
    fmt.raw =>
        /\ fmt.pc \in {"check", "task"} => fmt.rchk = fmt.text
        /\ fmt.pc = "task" => fmt.rcmd = <<>>
        /\ fmt.pc # "failed"

C33_Steps ==
    fmt.raw =>
        /\ FmtCheckFails => (fmt.text # <<>> /\ fmt'.pc = "file" /\ fmt'.text = fmt.text)
        /\ FmtExit => fmt'.pc = "done"

C33_NoSeparator == []C33_WholeContent /\ [][C33_Steps]_vars

\* Witness of C33: a zero-byte file went through precondition, launch and
\* exit in one run and is in done, holding the banner only.
C33_Witness ==
    /\ fmt.raw
    /\ fmt.orig = <<>>
    /\ fmt.pc = "done"
    /\ fmt.run = 1
    /\ fmt.text = Banner

\* ---- C34 ------------------------------------------------------------------
\* C34: kill_proc_tree on a root pid whose process has exited and was reaped
\* completes without raising: a second handler that runs for such a pid goes
\* on to its rename, so the worker ends released whenever the file is at
\* task_file, with the file in the claim directory.
C34_Handler(w) ==
    (SigtermH2(w) /\ proc[w] \in {"none", "gone"}
                  /\ task_file[w] # "none"
                  /\ Exists(task_file[w], task_id[w])) =>
        /\ exit_status'[w] = "released"
        /\ Exists(ReadyDir, task_id[w])'

C34_KillIgnoresExited == [][\A w \in Workers : C34_Handler(w)]_vars

====
